---- MODULE Spec2Model ----
(***************************************************************************)
(* zanD: the danmaku lane scheduler of AssGenerator (utils.ts), the        *)
(* parallel resource fetch of ResourceDownloader (resource-downloader.ts)  *)
(* and the sequential, cached resource download of ZanLiveDownloader.      *)
(*                                                                         *)
(* Three specifications share the variables:                               *)
(*   Spec     AssGenerator (utils.ts): constructor, then generateEvents    *)
(*            one comment at a time, in arrival order.                      *)
(*   SpecDl   one of: ResourceDownloader.downloadAllResources with its     *)
(*            interleaved async jobs; ZanLiveDownloader.downloadResources  *)
(*            with downloadedResources and retry; retry; processUserData;  *)
(*            the delayed map callbacks; ZanLiveComment.processUserInfo.   *)
(*   SpecAss  one of: AssGenerator (ass-generator.ts) inside saveAss and   *)
(*            generateAssFile; the formatting functions; both lane         *)
(*            choices of generateEvents on the same event times.           *)
(***************************************************************************)
EXTENDS Integers, Sequences, FiniteSets, TLC

VARIABLES
    \* ---- AssGenerator (utils.ts) ----
    displayAreaRatio,   \* constructor argument, in hundredths (0.25 is 25)
    lineSpacing,        \* constructor argument, in hundredths (0.7 is 70)
    maxLines,           \* this.maxLines
    comments,           \* the comments generateEvents has iterated over so far
    firstCommentTime,   \* getTime() of comments[0].created_at
    lineTracker,        \* lineTracker[i], i in 0..maxLines-1: next free time of lane i
    events,             \* the Dialogue events emitted so far, in order
    \* ---- ResourceDownloader ----
    commentData,        \* argument of downloadAllResources: the comments
    resourceUrls,       \* argument of downloadAllResources: pageData.resourceUrls
    allPc,              \* position of downloadAllResources
    avatarPc,           \* position of downloadAvatars
    pagePc,             \* position of downloadPageResources
    mkdirs,             \* mkdir calls issued and not yet completed
    dirs,               \* directories that exist under outputDir
    avatarJobs,         \* the async callbacks of avatarUrls.entries().map, by index
    pageJobs,           \* the async callbacks of resourceUrls.map, by index
    avatarSuccessCount, \* successCount logged by downloadAvatars (-1: not logged)
    pageSuccessCount,   \* imageCount + gifCount logged by downloadPageResources
    \* ---- ZanLiveDownloader ----
    resourceArray,      \* Array.from(this.resourceUrls): distinct urls
    downloadedResources,\* this.downloadedResources
    runs,               \* the invocations of downloadResources(), each with its
                        \* loop index, retry attempt, counters and position
    completed,          \* per url, the outcomes its downloadResource calls ended with
    \* ---- retry (utils.ts) ----
    retryCall,          \* one call of retry(fn, maxRetries, retryDelay)
    \* ---- UserInfoManager ----
    userData,           \* one call of processUserData(comments)
    \* ---- the delayed callbacks of items.map(async (item, index) => ...) ----
    delayed,            \* the clock, the pending timers and the issued fetches
    \* ---- AssGenerator (ass-generator.ts), saveAss, generateAssFile ----
    ass,                \* one generator with its documents and the run around it
    \* ---- formatting functions ----
    fmt,                \* the arguments and results of the calls made
    \* ---- the two generateEvents lane choices on the same event times ----
    schedulers,         \* both lineTracker arrays and the lines chosen so far
    \* ---- ZanLiveComment.processUserInfo (comment.ts) ----
    userInfoRun         \* one call of processUserInfo()

schedVars == <<displayAreaRatio, lineSpacing, maxLines, comments,
               firstCommentTime, lineTracker, events>>
dlVars    == <<commentData, resourceUrls, allPc, avatarPc, pagePc, mkdirs, dirs,
               avatarJobs, pageJobs, avatarSuccessCount, pageSuccessCount>>
resVars   == <<resourceArray, downloadedResources, runs, completed>>
auxVars   == <<retryCall, userData, delayed, ass, fmt>>
moreVars  == <<schedulers, userInfoRun>>
vars      == <<schedVars, dlVars, resVars, auxVars, moreVars>>

FirstArgument(a, b) == a

\* Math.max
Max(a, b) == IF a >= b THEN a ELSE b

(***************************************************************************)
(* Bounds of the model                                                     *)
(***************************************************************************)
MaxComments == 4

\* created_at instants (epoch ms) the comments are drawn from
CreatedAt == {1000, 1100, 6000, 9000, 13000, 21000}

\* content.text: absent/empty (a gift comment) or a text
NoText == ""
Texts  == {NoText, "w"}

\* (displayAreaRatio, lineSpacing) pairs the constructor is called with, in
\* hundredths; <<25, 70>> are the defaults
CtorArgs == {<<25, 70>>, <<8, 70>>, <<4, 70>>, <<1, 70>>}

(***************************************************************************)
(* AssGenerator constructor (utils.ts)                                     *)
(***************************************************************************)
videoHeight == 1080
fontSize    == 24
speed       == 8

\* this.lineHeight = fontSize + fontSize * lineSpacing, times 100
LineHeight100(spacing) == fontSize * 100 + fontSize * spacing

MaxLinesUnclamped(n) == n

\* if (this.maxLines < 1) this.maxLines = 1
MaxLinesAtLeastOne(n) == IF n < 1 THEN 1 ELSE n

\* Math.floor(displayAreaHeight / lineHeight), then at least 1
MaxLinesOf(ratio, spacing) ==
    MaxLinesAtLeastOne((videoHeight * ratio) \div LineHeight100(spacing))

(***************************************************************************)
(* generateEvents (utils.ts): the lane choice for one comment               *)
(***************************************************************************)
danmakuDuration == speed * 1000

Lanes(tracker) == DOMAIN tracker

LineIsFreeStrict(tracker, i, currentTime) == tracker[i] < currentTime

\* (lineTracker[i] || 0) <= currentTime
LineIsFree(tracker, i, currentTime) == tracker[i] <= currentTime

\* the first loop: foundAvailableLine
FoundAvailableLine(tracker, currentTime) ==
    \E i \in Lanes(tracker) : LineIsFree(tracker, i, currentTime)

LastFreeLine(tracker, currentTime) ==
    CHOOSE i \in Lanes(tracker) :
        /\ LineIsFree(tracker, i, currentTime)
        /\ \A k \in Lanes(tracker) : k > i => ~LineIsFree(tracker, k, currentTime)

\* the first loop: the lowest free index (break at the first hit)
FirstFreeLine(tracker, currentTime) ==
    CHOOSE i \in Lanes(tracker) :
        /\ LineIsFree(tracker, i, currentTime)
        /\ \A k \in Lanes(tracker) : k < i => ~LineIsFree(tracker, k, currentTime)

LastEarliestEndLine(tracker) ==
    CHOOSE i \in Lanes(tracker) :
        /\ \A k \in Lanes(tracker) : tracker[i] <= tracker[k]
        /\ \A k \in Lanes(tracker) : k > i => tracker[k] > tracker[i]

\* the second loop: strict < keeps the lowest index among equal minima
EarliestEndLine(tracker) ==
    CHOOSE i \in Lanes(tracker) :
        /\ \A k \in Lanes(tracker) : tracker[i] <= tracker[k]
        /\ \A k \in Lanes(tracker) : k < i => tracker[k] > tracker[i]

SelectedLine(tracker, currentTime) ==
    IF FoundAvailableLine(tracker, currentTime)
    THEN FirstFreeLine(tracker, currentTime)
    ELSE EarliestEndLine(tracker)

NextFreeAtNoDwell(prev, currentTime) == Max(currentTime, prev)

\* Math.max(currentTime, lineTracker[selectedLine] || 0) + danmakuDuration
NextFreeAt(prev, currentTime) == Max(currentTime, prev) + danmakuDuration

UpdatedTrackerAllLanes(tracker, line, currentTime) ==
    [l \in DOMAIN tracker |-> NextFreeAt(tracker[l], currentTime)]

\* lineTracker[selectedLine] = Math.max(...) + danmakuDuration
UpdatedTracker(tracker, line, currentTime) ==
    [tracker EXCEPT ![line] = NextFreeAt(tracker[line], currentTime)]

EmitsAlways(comment) == TRUE

\* const message = comment.content?.text; if (!message) return;
HasMessage(comment) == comment.text # NoText

SchedInit ==
    /\ \E args \in CtorArgs :
         /\ displayAreaRatio = args[1]
         /\ lineSpacing = args[2]
         /\ maxLines = MaxLinesOf(args[1], args[2])
         /\ lineTracker = [i \in 0 .. (MaxLinesOf(args[1], args[2]) - 1) |-> 0]
    /\ comments = <<>>
    /\ firstCommentTime = 0
    /\ events = <<>>

\* one iteration of comments.forEach in generateEvents
ProcessComment(comment) ==
    /\ Len(comments) < MaxComments
    /\ comments' = Append(comments, comment)
    /\ LET base == IF comments = <<>> THEN comment.created_at ELSE firstCommentTime
           currentTime == comment.created_at - base
           found == FoundAvailableLine(lineTracker, currentTime)
           line == SelectedLine(lineTracker, currentTime)
       IN /\ firstCommentTime' = base
          /\ \/ /\ ~HasMessage(comment)
                /\ UNCHANGED <<lineTracker, events>>
             \/ /\ HasMessage(comment)
                /\ lineTracker' = UpdatedTracker(lineTracker, line, currentTime)
                /\ events' = Append(events,
                     [idx |-> Len(comments) + 1, start |-> currentTime,
                      end |-> currentTime + speed * 1000, line |-> line,
                      found |-> found, tracker |-> lineTracker])
    /\ UNCHANGED <<displayAreaRatio, lineSpacing, maxLines>>

SchedNext ==
    \E t \in CreatedAt, x \in Texts :
        ProcessComment([created_at |-> t, text |-> x])

\* ---- the other components while Spec runs ----
SchedIdle ==
    /\ displayAreaRatio = 25
    /\ lineSpacing = 70
    /\ maxLines = MaxLinesOf(25, 70)
    /\ lineTracker = [i \in 0 .. (MaxLinesOf(25, 70) - 1) |-> 0]
    /\ comments = <<>>
    /\ firstCommentTime = 0
    /\ events = <<>>

DlIdle ==
    /\ commentData = <<>>
    /\ resourceUrls = <<>>
    /\ allPc = "off"
    /\ avatarPc = "off"
    /\ pagePc = "off"
    /\ mkdirs = {}
    /\ dirs = {}
    /\ avatarJobs = <<>>
    /\ pageJobs = <<>>
    /\ avatarSuccessCount = -1
    /\ pageSuccessCount = -1

ResIdle ==
    /\ resourceArray = <<>>
    /\ downloadedResources = {}
    /\ runs = <<>>
    /\ completed = <<>>

\* retry, processUserData, the delayed callbacks, the ass-generator.ts
\* generator and the formatting functions have not been called
RetryIdle == retryCall = <<>>
UserIdle == userData = <<>>
DelayedIdle == delayed = <<>>
AssIdle == ass = <<>>
FmtIdle == fmt = <<>>

Init ==
    /\ SchedInit /\ DlIdle /\ ResIdle /\ RetryIdle /\ UserIdle /\ DelayedIdle
    /\ AssIdle /\ FmtIdle /\ schedulers = <<>> /\ userInfoRun = <<>>

Next == SchedNext /\ UNCHANGED <<dlVars, resVars, auxVars, moreVars>>

Spec == Init /\ [][Next]_vars

(***************************************************************************)
(* Strings that the code inspects are sequences of one-character strings   *)
(***************************************************************************)
RECURSIVE LastSlash(_, _)
\* position of the last "/" among s[1..n], 0 when there is none
LastSlash(s, n) ==
    IF n = 0 THEN 0 ELSE IF s[n] = "/" THEN n ELSE LastSlash(s, n - 1)

\* s.split('/').pop()
AfterLastSlash(s) == SubSeq(s, LastSlash(s, Len(s)) + 1, Len(s))

\* s.includes(sub)
Includes(s, sub) ==
    \E i \in 1 .. (Len(s) - Len(sub) + 1) : SubSeq(s, i, i + Len(sub) - 1) = sub

\* s.endsWith(suffix)
EndsWith(s, suffix) ==
    /\ Len(s) >= Len(suffix)
    /\ SubSeq(s, Len(s) - Len(suffix) + 1, Len(s)) = suffix

LowerChar(c) ==
    CASE c = "G" -> "g" [] c = "I" -> "i" [] c = "F" -> "f" [] OTHER -> c

\* s.toLowerCase()
ToLowerCase(s) == [i \in 1 .. Len(s) |-> LowerChar(s[i])]

Gif     == <<"g", "i", "f">>
DotGif  == <<".", "g", "i", "f">>
DotPng  == <<".", "p", "n", "g">>
Unknown == <<"u", "n", "k", "n", "o", "w", "n">>

(***************************************************************************)
(* ResourceDownloader: inputs                                              *)
(***************************************************************************)
\* total number of comments and resource urls handed to downloadAllResources
MaxInputs == 3

\* a url: its text, whether new URL(text) parses, and the pathname it yields
Url(origin, pathname) ==
    [text |-> origin \o pathname, valid |-> TRUE, pathname |-> pathname]

OriginC == <<"h", ":", "/", "/", "c">>
OriginD == <<"h", ":", "/", "/", "d">>

PageUrls ==
    { Url(OriginC, <<"/", "a", "/", "i", ".", "p", "n", "g">>),
      Url(OriginD, <<"/", "i", ".", "p", "n", "g">>),
      Url(OriginC, <<"/", "g", "i", "f", "/", "s">>),
      [text |-> <<"s", ".", "G", "I", "F">>, valid |-> FALSE, pathname |-> <<>>] }

\* Date.now() as read by getFileName
NowMs == {"1700000000000", "1700000000001"}

UserIds == {"u1", "u2"}
NoUrl == ""
ProfileImageUrls == {NoUrl, "A1", "A2"}

AvatarComments ==
    [user_id : UserIds, profileImageUrl : ProfileImageUrls]

SeqsUpTo(S, n) == UNION {[1 .. k -> S] : k \in 0 .. n}

\* CONFIG.avatarDir, CONFIG.imageDir, CONFIG.gifDir
avatarDir == "avatars/"
imageDir  == "images/"
gifDir    == "gifs/"

(***************************************************************************)
(* ResourceDownloader: helpers                                             *)
(***************************************************************************)
\* getFileName(url); now is the value Date.now() returns in the catch branch
getFileName(url, now) ==
    IF url.valid
    THEN LET last == AfterLastSlash(url.pathname)
             fileName == IF last = <<>> THEN Unknown ELSE last
         IN IF ~Includes(fileName, <<".">>)
            THEN IF Includes(url.text, Gif) \/ Includes(ToLowerCase(url.text), DotGif)
                 THEN fileName \o DotGif
                 ELSE fileName \o DotPng
            ELSE fileName
    ELSE <<"r", "e", "s", "o", "u", "r", "c", "e", "_", now>>
         \o (IF Includes(ToLowerCase(url.text), Gif) THEN DotGif ELSE DotPng)

\* const isGif = fileName.toLowerCase().endsWith('.gif'); isGif ? gifDir : imageDir
TargetDir(fileName) ==
    IF EndsWith(ToLowerCase(fileName), DotGif) THEN gifDir ELSE imageDir

AvatarUrlOfEveryComment(cd) ==
    LET withUrl == SelectSeq(cd, LAMBDA c : c.profileImageUrl # NoUrl)
    IN [k \in DOMAIN withUrl |->
          [userId |-> withUrl[k].user_id, avatarUrl |-> withUrl[k].profileImageUrl]]

RECURSIVE AvatarUrls(_)
\* the avatarUrls Map as its entries in insertion order: the first comment of
\* each user_id that has a profileImageUrl
AvatarUrls(cd) ==
    IF cd = <<>> THEN <<>>
    ELSE LET front == AvatarUrls(SubSeq(cd, 1, Len(cd) - 1))
             c == cd[Len(cd)]
         IN IF /\ c.profileImageUrl # NoUrl
               /\ ~\E k \in DOMAIN front : front[k].userId = c.user_id
            THEN Append(front, [userId |-> c.user_id, avatarUrl |-> c.profileImageUrl])
            ELSE front

Terminal == {"ok", "failed"}

\* the async callback of map up to its first await: index 0 calls fetch at
\* once, every other index awaits delay(CONFIG.delays.resource)
NewJob(index, url, dir, file) ==
    [index |-> index, url |-> url, dir |-> dir, file |-> file,
     pc |-> IF index > 0 THEN "delay" ELSE "fetching",
     fetched |-> (index = 0), env |-> "none"]

AvatarJob(entries, k) ==
    NewJob(k - 1, entries[k].avatarUrl, avatarDir, <<entries[k].userId, ".", "j", "p", "g">>)

\* the file name of a page job is computed after the delay
PageJob(urls, k, now) ==
    IF k = 1
    THEN NewJob(0, urls[k], TargetDir(getFileName(urls[k], now)), getFileName(urls[k], now))
    ELSE NewJob(k - 1, urls[k], "", <<>>)

AbortSiblings(js, k) ==
    [i \in DOMAIN js |->
        IF i = k \/ js[i].pc \notin Terminal
        THEN [js[i] EXCEPT !.pc = "failed"] ELSE js[i]]

\* catch (error) { ...; return { success: false, error } } of one callback
OnJobError(js, k) == [js EXCEPT ![k].pc = "failed"]

CountFulfilled(js) == Len(js)

\* results.filter(r => r.status === 'fulfilled' && r.value.success).length
SuccessCount(js) == Cardinality({k \in DOMAIN js : js[k].pc = "ok"})

AllSettled(js) == \A k \in DOMAIN js : js[k].pc \in Terminal

(***************************************************************************)
(* ResourceDownloader: downloadAllResources                                *)
(***************************************************************************)
DlInit ==
    /\ commentData \in SeqsUpTo(AvatarComments, MaxInputs)
    /\ resourceUrls \in SeqsUpTo(PageUrls, MaxInputs)
    /\ Len(commentData) + Len(resourceUrls) <= MaxInputs
    /\ allPc = "idle"
    /\ avatarPc = "idle"
    /\ pagePc = "idle"
    /\ mkdirs = {}
    /\ dirs = {}
    /\ avatarJobs = <<>>
    /\ pageJobs = <<>>
    /\ avatarSuccessCount = -1
    /\ pageSuccessCount = -1

\* downloadAllResources up to await Promise.all: downloadAvatars runs to its
\* await ensureDir, downloadPageResources returns at once without urls or
\* runs to its await of the two ensureDir calls
DownloadAllResources ==
    /\ allPc = "idle"
    /\ allPc' = "waiting"
    /\ avatarPc' = "ensureDir"
    /\ IF Len(resourceUrls) = 0
       THEN /\ pagePc' = "done"
            /\ mkdirs' = {avatarDir}
       ELSE /\ pagePc' = "ensureDir"
            /\ mkdirs' = {avatarDir, imageDir, gifDir}
    /\ UNCHANGED <<commentData, resourceUrls, dirs, avatarJobs, pageJobs,
                   avatarSuccessCount, pageSuccessCount>>

\* the file system completes one mkdir(dirPath, {recursive: true})
MkdirDone(d) ==
    /\ d \in mkdirs
    /\ mkdirs' = mkdirs \ {d}
    /\ dirs' = dirs \cup {d}
    /\ UNCHANGED <<commentData, resourceUrls, allPc, avatarPc, pagePc,
                   avatarJobs, pageJobs, avatarSuccessCount, pageSuccessCount>>

\* downloadAvatars after await ensureDir(avatarDir): build avatarUrls, return
\* when it is empty, else start every callback and await Promise.allSettled
AvatarsContinue ==
    /\ avatarPc = "ensureDir"
    /\ avatarDir \notin mkdirs
    /\ LET entries == AvatarUrls(commentData)
       IN IF Len(entries) = 0
          THEN /\ avatarPc' = "done"
               /\ UNCHANGED avatarJobs
          ELSE /\ avatarPc' = "waiting"
               /\ avatarJobs' = [k \in 1 .. Len(entries) |-> AvatarJob(entries, k)]
    /\ UNCHANGED <<commentData, resourceUrls, allPc, pagePc, mkdirs, dirs, pageJobs,
                   avatarSuccessCount, pageSuccessCount>>

\* downloadPageResources after await Promise.all([ensureDir, ensureDir])
PagesContinue ==
    /\ pagePc = "ensureDir"
    /\ imageDir \notin mkdirs
    /\ gifDir \notin mkdirs
    /\ pagePc' = "waiting"
    /\ \E now \in NowMs :
         pageJobs' = [k \in 1 .. Len(resourceUrls) |-> PageJob(resourceUrls, k, now)]
    /\ UNCHANGED <<commentData, resourceUrls, allPc, avatarPc, mkdirs, dirs, avatarJobs,
                   avatarSuccessCount, pageSuccessCount>>

\* delay(CONFIG.delays.resource) of an avatar callback elapses (timers of one
\* duration fire in the order they were set): downloadFile calls fetch
AvatarDelayElapsed(k) ==
    /\ k \in DOMAIN avatarJobs
    /\ avatarJobs[k].pc = "delay"
    /\ \A i \in DOMAIN avatarJobs : i < k => avatarJobs[i].pc # "delay"
    /\ avatarJobs' = [avatarJobs EXCEPT ![k].pc = "fetching", ![k].fetched = TRUE]
    /\ UNCHANGED <<commentData, resourceUrls, allPc, avatarPc, pagePc, mkdirs, dirs,
                   pageJobs, avatarSuccessCount, pageSuccessCount>>

\* the same for a page callback: getFileName, the target directory, fetch
PageDelayElapsed(k) ==
    /\ k \in DOMAIN pageJobs
    /\ pageJobs[k].pc = "delay"
    /\ \A i \in DOMAIN pageJobs : i < k => pageJobs[i].pc # "delay"
    /\ \E now \in NowMs :
         LET fileName == getFileName(pageJobs[k].url, now)
         IN pageJobs' = [pageJobs EXCEPT ![k].pc = "fetching", ![k].fetched = TRUE,
                                         ![k].file = fileName,
                                         ![k].dir = TargetDir(fileName)]
    /\ UNCHANGED <<commentData, resourceUrls, allPc, avatarPc, pagePc, mkdirs, dirs,
                   avatarJobs, avatarSuccessCount, pageSuccessCount>>

\* downloadFile: the awaited fetch settles. A response that is ok and has a
\* body opens createWriteStream(filePath) and starts the pipeline; a non-2xx
\* response, an empty body or a network error throws into the callback's catch
FetchSettles(js, k, ok) ==
    IF ok
    THEN [js EXCEPT ![k].pc = "writing"]
    ELSE [OnJobError(js, k) EXCEPT ![k].env = "fault"]

\* downloadFile: the pipeline into the file ends; the callback returns
\* { success: true } or the stream error is thrown into its catch
PipelineEnds(js, k, ok) ==
    IF ok
    THEN [js EXCEPT ![k].pc = "ok", ![k].env = "ok"]
    ELSE [OnJobError(js, k) EXCEPT ![k].env = "fault"]

AvatarFetchSettles(k, ok) ==
    /\ k \in DOMAIN avatarJobs
    /\ avatarJobs[k].pc = "fetching"
    /\ avatarJobs' = FetchSettles(avatarJobs, k, ok)
    /\ UNCHANGED <<commentData, resourceUrls, allPc, avatarPc, pagePc, mkdirs, dirs,
                   pageJobs, avatarSuccessCount, pageSuccessCount>>

PageFetchSettles(k, ok) ==
    /\ k \in DOMAIN pageJobs
    /\ pageJobs[k].pc = "fetching"
    /\ pageJobs' = FetchSettles(pageJobs, k, ok)
    /\ UNCHANGED <<commentData, resourceUrls, allPc, avatarPc, pagePc, mkdirs, dirs,
                   avatarJobs, avatarSuccessCount, pageSuccessCount>>

AvatarPipelineEnds(k, ok) ==
    /\ k \in DOMAIN avatarJobs
    /\ avatarJobs[k].pc = "writing"
    /\ avatarJobs' = PipelineEnds(avatarJobs, k, ok)
    /\ UNCHANGED <<commentData, resourceUrls, allPc, avatarPc, pagePc, mkdirs, dirs,
                   pageJobs, avatarSuccessCount, pageSuccessCount>>

PagePipelineEnds(k, ok) ==
    /\ k \in DOMAIN pageJobs
    /\ pageJobs[k].pc = "writing"
    /\ pageJobs' = PipelineEnds(pageJobs, k, ok)
    /\ UNCHANGED <<commentData, resourceUrls, allPc, avatarPc, pagePc, mkdirs, dirs,
                   avatarJobs, avatarSuccessCount, pageSuccessCount>>

\* downloadAvatars after await Promise.allSettled(downloadPromises)
AvatarsSettled ==
    /\ avatarPc = "waiting"
    /\ AllSettled(avatarJobs)
    /\ avatarSuccessCount' = SuccessCount(avatarJobs)
    /\ avatarPc' = "done"
    /\ UNCHANGED <<commentData, resourceUrls, allPc, pagePc, mkdirs, dirs,
                   avatarJobs, pageJobs, pageSuccessCount>>

\* downloadPageResources after await Promise.allSettled(downloadPromises)
PagesSettled ==
    /\ pagePc = "waiting"
    /\ AllSettled(pageJobs)
    /\ pageSuccessCount' = SuccessCount(pageJobs)
    /\ pagePc' = "done"
    /\ UNCHANGED <<commentData, resourceUrls, allPc, avatarPc, mkdirs, dirs,
                   avatarJobs, pageJobs, avatarSuccessCount>>

\* downloadAllResources after await Promise.all([...]) of the two calls
AllResourcesDone ==
    /\ allPc = "waiting"
    /\ avatarPc = "done"
    /\ pagePc = "done"
    /\ allPc' = "done"
    /\ UNCHANGED <<commentData, resourceUrls, avatarPc, pagePc, mkdirs, dirs,
                   avatarJobs, pageJobs, avatarSuccessCount, pageSuccessCount>>

DlNext ==
    \/ DownloadAllResources
    \/ \E d \in {avatarDir, imageDir, gifDir} : MkdirDone(d)
    \/ AvatarsContinue
    \/ PagesContinue
    \/ \E k \in 1 .. MaxInputs : AvatarDelayElapsed(k)
    \/ \E k \in 1 .. MaxInputs : PageDelayElapsed(k)
    \/ \E k \in 1 .. MaxInputs, ok \in BOOLEAN : AvatarFetchSettles(k, ok)
    \/ \E k \in 1 .. MaxInputs, ok \in BOOLEAN : PageFetchSettles(k, ok)
    \/ \E k \in 1 .. MaxInputs, ok \in BOOLEAN : AvatarPipelineEnds(k, ok)
    \/ \E k \in 1 .. MaxInputs, ok \in BOOLEAN : PagePipelineEnds(k, ok)
    \/ AvatarsSettled
    \/ PagesSettled
    \/ AllResourcesDone


(***************************************************************************)
(* ZanLiveDownloader: downloadResources, retry, downloadResource           *)
(***************************************************************************)
\* number of urls in this.resourceUrls
MaxResources == 2

\* CONFIG.maxRetries
maxRetries == 3

\* the invocations of downloadResources() on one ZanLiveDownloader
Runs == {"r1", "r2"}

\* the urls the page parsers add to this.resourceUrls; downloadResources uses
\* a url only as the key of downloadedResources and as the fetch target
FoundUrls == {u \in PageUrls : u.valid}

DistinctSeqs(S, n) ==
    {q \in SeqsUpTo(S, n) : \A i, k \in DOMAIN q : i # k => q[i] # q[k]}

NeverDownloaded(url, downloaded) == FALSE

\* if (this.downloadedResources.has(url)) return;
HasDownloaded(url, downloaded) == url \in downloaded

\* retry: after a failed attempt i, another one follows while i < maxRetries - 1
RetryAgain(attempt) == attempt < maxRetries - 1

\* downloadResources: the catch of one iteration falls through to i++
AfterFailedJob(i) == i + 1

ResInit ==
    /\ resourceArray \in DistinctSeqs(FoundUrls, MaxResources)
    /\ downloadedResources = {}
    /\ runs = [r \in Runs |->
                 [pc |-> "idle", i |-> 0, attempt |-> 0, successCount |-> 0,
                  failCount |-> 0, prior |-> {}, results |-> <<>>]]
    /\ completed = [u \in FoundUrls |-> {}]

RECURSIVE EnterJob(_, _, _, _)
\* the for loop of downloadResources from index i (1-based) on: retry calls
\* downloadResource(url), which returns at once for a url in
\* downloadedResources (successCount++, next i) and otherwise runs to its
\* await ensureDir; past the last url the method returns
EnterJob(run, i, downloaded, done) ==
    IF i > Len(resourceArray)
    THEN [run EXCEPT !.pc = "done", !.i = i]
    ELSE IF HasDownloaded(resourceArray[i], downloaded)
         THEN EnterJob([run EXCEPT !.successCount = @ + 1,
                                   !.results = Append(@, [ok |-> TRUE, tries |-> 0])],
                       i + 1, downloaded, done)
         ELSE [run EXCEPT !.pc = "ensureDir", !.i = i, !.attempt = 0,
                          !.prior = done[resourceArray[i]]]

CurrentUrl(run) == resourceArray[run.i]

\* downloadResources() is called
StartRun(r) ==
    /\ runs # <<>>
    /\ runs[r].pc = "idle"
    /\ runs' = [runs EXCEPT ![r] = EnterJob(runs[r], 1, downloadedResources, completed)]
    /\ UNCHANGED <<resourceArray, downloadedResources, completed>>

\* downloadResource: await ensureDir(...) completes and fetch is called
EnsureDirDone(r) ==
    /\ runs # <<>>
    /\ runs[r].pc = "ensureDir"
    /\ runs' = [runs EXCEPT ![r].pc = "fetching"]
    /\ UNCHANGED <<resourceArray, downloadedResources, completed>>

\* a downloadResource call throws: retry waits and calls again, or rethrows
\* after the last attempt into the catch of downloadResources (failCount++)
CallFails(r) ==
    LET run == runs[r]
        done == [completed EXCEPT ![CurrentUrl(run)] = @ \cup {"failed"}]
    IN /\ completed' = done
       /\ UNCHANGED downloadedResources
       /\ IF RetryAgain(run.attempt)
          THEN runs' = [runs EXCEPT ![r].pc = "retryDelay"]
          ELSE runs' = [runs EXCEPT ![r] =
                 EnterJob([run EXCEPT !.failCount = @ + 1,
                                      !.results = Append(@, [ok |-> FALSE,
                                                             tries |-> run.attempt + 1])],
                          AfterFailedJob(run.i), downloadedResources, done)]

\* the awaited fetch settles: an ok response is read (arrayBuffer) and
\* writeFile is called; a non-2xx response or a network error throws
ResFetchSettles(r, ok) ==
    /\ runs # <<>>
    /\ runs[r].pc = "fetching"
    /\ IF ok
       THEN /\ runs' = [runs EXCEPT ![r].pc = "writing"]
            /\ UNCHANGED <<downloadedResources, completed>>
       ELSE CallFails(r)
    /\ UNCHANGED resourceArray

\* writeFile ends: on success the url is added to downloadedResources, the
\* call returns, successCount++ and the loop goes on
WriteEnds(r, ok) ==
    /\ runs # <<>>
    /\ runs[r].pc = "writing"
    /\ IF ok
       THEN LET run == runs[r]
                downloaded == downloadedResources \cup {CurrentUrl(run)}
                done == [completed EXCEPT ![CurrentUrl(run)] = @ \cup {"success"}]
            IN /\ downloadedResources' = downloaded
               /\ completed' = done
               /\ runs' = [runs EXCEPT ![r] =
                    EnterJob([run EXCEPT !.successCount = @ + 1,
                                         !.results = Append(@, [ok |-> TRUE,
                                                                tries |-> run.attempt + 1])],
                             run.i + 1, downloaded, done)]
       ELSE CallFails(r)
    /\ UNCHANGED resourceArray

\* retry: await delay(retryDelay) elapses and fn() is called again
RetryDelayElapsed(r) ==
    /\ runs # <<>>
    /\ runs[r].pc = "retryDelay"
    /\ LET run == runs[r]
       IN runs' = [runs EXCEPT ![r] =
            IF HasDownloaded(CurrentUrl(run), downloadedResources)
            THEN EnterJob([run EXCEPT !.successCount = @ + 1,
                                      !.results = Append(@, [ok |-> TRUE,
                                                             tries |-> run.attempt + 1])],
                          run.i + 1, downloadedResources, completed)
            ELSE [run EXCEPT !.pc = "ensureDir", !.attempt = @ + 1,
                             !.prior = completed[CurrentUrl(run)]]]
    /\ UNCHANGED <<resourceArray, downloadedResources, completed>>

ResNext ==
    \/ \E r \in Runs : StartRun(r)
    \/ \E r \in Runs : EnsureDirDone(r)
    \/ \E r \in Runs, ok \in BOOLEAN : ResFetchSettles(r, ok)
    \/ \E r \in Runs, ok \in BOOLEAN : WriteEnds(r, ok)
    \/ \E r \in Runs : RetryDelayElapsed(r)

(***************************************************************************)
(* retry(fn, maxRetries, retryDelay)                                       *)
(***************************************************************************)
\* the largest maxRetries argument tried
MaxRetriesArg == 3

\* retryDelay arguments (CONFIG.retryDelay is 1000)
RetryDelays == {0, 1000}

\* what the i-th call of fn settles with: a value or an error of its own
FnOutcome(i, ok) == [ok |-> ok, of |-> i]

\* lastError before any call: undefined
Undefined == [ok |-> FALSE, of |-> -1]

\* for (let i = 0; i < maxRetries; i++)
LoopContinues(i, n) == i < n

DelaysAfterEveryFailure(i, n) == TRUE

\* if (i < maxRetries - 1) await delay(retryDelay)
ShouldDelay(i, n) == i < n - 1

\* the head of the for loop with index i: fn is called, or the loop is left
\* and lastError is thrown
RetryLoopHead(rc, i) ==
    IF LoopContinues(i, rc.maxRetries)
    THEN [rc EXCEPT !.pc = "calling", !.i = i, !.trace = Append(@, "call")]
    ELSE [rc EXCEPT !.pc = "thrown", !.i = i, !.result = rc.lastError]

\* retry(fn, n, d) is called
RetryEnter(n, d) ==
    /\ retryCall.pc = "idle"
    /\ retryCall' = RetryLoopHead([retryCall EXCEPT !.maxRetries = n, !.retryDelay = d], 0)

\* the awaited fn() settles: its value is returned, or the error is kept in
\* lastError and the loop waits or goes on
RetryFnSettles(ok) ==
    /\ retryCall # <<>>
    /\ retryCall.pc = "calling"
    /\ LET out == FnOutcome(retryCall.i, ok)
           rc == [retryCall EXCEPT !.outcomes = Append(@, out)]
       IN retryCall' =
            IF ok
            THEN [rc EXCEPT !.pc = "returned", !.result = out]
            ELSE IF ShouldDelay(rc.i, rc.maxRetries)
                 THEN [rc EXCEPT !.pc = "delaying", !.lastError = out,
                                 !.trace = Append(@, "delay"),
                                 !.waited = @ + rc.retryDelay]
                 ELSE RetryLoopHead([rc EXCEPT !.lastError = out], rc.i + 1)

\* await delay(retryDelay) ends: i++
RetryWaitEnds ==
    /\ retryCall # <<>>
    /\ retryCall.pc = "delaying"
    /\ retryCall' = RetryLoopHead(retryCall, retryCall.i + 1)

RetryInit ==
    retryCall = [pc |-> "idle", maxRetries |-> 0, retryDelay |-> 0, i |-> 0,
                 trace |-> <<>>, outcomes |-> <<>>, lastError |-> Undefined,
                 waited |-> 0, result |-> Undefined]

RetryNext ==
    \/ \E n \in 0 .. MaxRetriesArg, d \in RetryDelays :
         retryCall # <<>> /\ RetryEnter(n, d)
    \/ \E ok \in BOOLEAN : RetryFnSettles(ok)
    \/ RetryWaitEnds

(***************************************************************************)
(* UserInfoManager: processUserData, getUserInfo, downloadUserAvatar       *)
(***************************************************************************)
\* number of comments handed to processUserData
MaxUserComments == 2

\* comment.user_id; the empty string is skipped by the loop
NoUserId == ""
CommentUserIds == {NoUserId, "u1", "u2"}

\* what the awaited fetch of getUserInfo settles with: an ok response whose
\* json has a profileImageUrl or has none, a non-2xx response, a network error
InfoResponses == {"okWithAvatar", "okNoAvatar", "non2xx", "networkError"}

\* getUserInfo catches every error: it returns the userInfo of an ok response
\* and null otherwise, and never throws
GetUserInfo(resp) ==
    [threw |-> FALSE,
     userInfo |-> resp \in {"okWithAvatar", "okNoAvatar"},
     profileImageUrl |-> resp = "okWithAvatar"]

\* the for loop of processUserData at comment k (1-based): comments without
\* user_id are skipped; retry calls getUserInfo, which calls fetch
RECURSIVE UserLoopHead(_, _)
UserLoopHead(ud, k) ==
    IF k > Len(ud.comments)
    THEN [ud EXCEPT !.pc = "done", !.idx = k]
    ELSE IF ud.comments[k] = NoUserId
         THEN UserLoopHead(ud, k + 1)
         ELSE [ud EXCEPT !.pc = "infoFetch", !.idx = k,
                         !.infoFetches[k] = @ + 1]

UserInit ==
    \E cs \in SeqsUpTo(CommentUserIds, MaxUserComments), exists \in BOOLEAN :
        userData = [pc |-> "idle", idx |-> 0, comments |-> cs,
                    dirExists |-> exists, created |-> {}, files |-> {},
                    successCount |-> 0, failCount |-> 0,
                    infoFetches |-> [k \in DOMAIN cs |-> 0],
                    avatarFetches |-> [k \in DOMAIN cs |-> 0],
                    infoFailed |-> {}, avatarFailed |-> {}, writeFailed |-> {}]

\* processUserData(comments) is called
ProcessUserData ==
    /\ userData # <<>>
    /\ userData.pc = "idle"
    /\ userData' = UserLoopHead(userData, 1)

\* the fetch of getUserInfo settles and retry returns what getUserInfo
\* returned. With a userInfo: successCount++ and, for a profileImageUrl,
\* retry calls downloadUserAvatar, which returns the path of an existing file
\* or calls fetch. Without: failCount++. Then await delay(delays.userInfo)
UserInfoSettles(resp) ==
    /\ userData # <<>>
    /\ userData.pc = "infoFetch"
    /\ LET ud == userData
           got == GetUserInfo(resp)
           k == ud.idx
       IN userData' =
            IF got.userInfo
            THEN LET ok == [ud EXCEPT !.successCount = @ + 1]
                 IN IF got.profileImageUrl /\ ud.comments[k] \notin ud.files
                    THEN [ok EXCEPT !.pc = "avatarFetch", !.avatarFetches[k] = @ + 1]
                    ELSE [ok EXCEPT !.pc = "delay"]
            ELSE [ud EXCEPT !.failCount = @ + 1, !.pc = "delay",
                            !.infoFailed = @ \cup {k}]

\* the fetch of downloadUserAvatar settles: a non-2xx response returns null, a
\* network error is caught and returns null; an ok response is read and
\* fs.writeFile(avatarPath) is called
UserAvatarSettles(ok) ==
    /\ userData # <<>>
    /\ userData.pc = "avatarFetch"
    /\ userData' = IF ok
                   THEN [userData EXCEPT !.pc = "avatarWrite"]
                   ELSE [userData EXCEPT !.pc = "delay",
                                         !.avatarFailed = @ \cup {userData.idx}]

\* fs.writeFile ends: it can succeed only in an existing directory; its error
\* is caught and downloadUserAvatar returns null
UserWriteEnds(ok) ==
    /\ userData # <<>>
    /\ userData.pc = "avatarWrite"
    /\ ok => userData.dirExists
    /\ userData' = IF ok
                   THEN [userData EXCEPT !.pc = "delay",
                            !.files = @ \cup {userData.comments[userData.idx]}]
                   ELSE [userData EXCEPT !.pc = "delay",
                            !.writeFailed = @ \cup {userData.idx}]

\* await delay(CONFIG.delays.userInfo) ends: the next comment
UserDelayEnds ==
    /\ userData # <<>>
    /\ userData.pc = "delay"
    /\ userData' = UserLoopHead(userData, userData.idx + 1)

UserNext ==
    \/ ProcessUserData
    \/ \E resp \in InfoResponses : UserInfoSettles(resp)
    \/ \E ok \in BOOLEAN : UserAvatarSettles(ok)
    \/ \E ok \in BOOLEAN : UserWriteEnds(ok)
    \/ UserDelayEnds

(***************************************************************************)
(* items.map(async (item, index) => { if (index > 0) await delay(D); ... }) *)
(* of downloadAvatars, downloadPageResources and processUserInfo, in time  *)
(***************************************************************************)
\* number of items mapped
MaxDelayedJobs == 3

\* the clock advances in steps of ClockStep milliseconds
ClockStep == 25

\* CONFIG.delays.resource, CONFIG.delays.userInfo
InterJobDelays == {50, 200}

NotIssued == -1

\* the callback of one index up to its first await, at time now: index 0
\* goes on to its fetch, every other index sets a timer of d milliseconds
StartCallback(index, now, d) ==
    [due |-> IF index > 0 THEN now + d ELSE now,
     issuedAt |-> IF index > 0 THEN NotIssued ELSE now]

\* map calls every callback in turn, without yielding to the event loop
DelayedInit ==
    \E n \in 1 .. MaxDelayedJobs, d \in InterJobDelays :
        delayed = [d |-> d, clock |-> 0,
                   jobs |-> [k \in 1 .. n |-> StartCallback(k - 1, 0, d)]]

\* time passes
ClockAdvances ==
    /\ delayed # <<>>
    /\ delayed.clock < delayed.d + ClockStep
    /\ delayed' = [delayed EXCEPT !.clock = @ + ClockStep]

\* the timer of callback k has expired and is run (expired timers run in the
\* order they were set): the callback goes on and issues its fetch
TimerFires(k) ==
    /\ delayed # <<>>
    /\ k \in DOMAIN delayed.jobs
    /\ delayed.jobs[k].issuedAt = NotIssued
    /\ delayed.jobs[k].due <= delayed.clock
    /\ \A i \in DOMAIN delayed.jobs : i < k => delayed.jobs[i].issuedAt # NotIssued
    /\ delayed' = [delayed EXCEPT !.jobs[k].issuedAt = delayed.clock]

DelayedNext ==
    \/ ClockAdvances
    \/ \E k \in 1 .. MaxDelayedJobs : TimerFires(k)

(***************************************************************************)
(* ZanLiveComment.processUserInfo and fetchUserInfo (comment.ts)           *)
(***************************************************************************)
\* number of comments in this.commentData
MaxFetchedComments == 3

\* comment.user_id of the fetched comments
FetchedUserIds == {"u1", "u2", "u3"}

FetchedComments == [user_id : FetchedUserIds]

\* what the fetch of fetchUserInfo settles with: an ok response whose json
\* body is a user info, an ok response whose body is null, an ok response
\* whose body does not parse, a non-2xx response, a network error
UserInfoResponses == {"ok", "okNullBody", "okBadJson", "non2xx", "networkError"}

NoUserInfo == [of |-> ""]

\* fetchUserInfo(userId) catches every error: the parsed body of an ok
\* response (the info of the user asked for), null otherwise
fetchUserInfo(userId, resp) == IF resp = "ok" THEN [of |-> userId] ELSE NoUserInfo

EveryUserId(cd) == [k \in DOMAIN cd |-> cd[k].user_id]

RECURSIVE UniqueUserIds(_)
\* [...new Set(this.commentData.map(comment => comment.user_id))]: the
\* distinct user ids in the order of their first comment
UniqueUserIds(cd) ==
    IF cd = <<>> THEN <<>>
    ELSE LET rest == UniqueUserIds(SubSeq(cd, 1, Len(cd) - 1))
             u == cd[Len(cd)].user_id
         IN IF \E k \in DOMAIN rest : rest[k] = u THEN rest ELSE Append(rest, u)

\* userInfoMap.set(userId, userInfo)
MapSet(map, key, value) ==
    [u \in (DOMAIN map) \cup {key} |-> IF u = key THEN value ELSE map[u]]

\* { ...comment, userInfo: userInfoMap.get(comment.user_id) }
WithUserInfo(comment, map) ==
    [user_id |-> comment.user_id,
     userInfo |-> IF comment.user_id \in DOMAIN map
                  THEN map[comment.user_id] ELSE NoUserInfo]

\* fetchComments has filled this.commentData and is about to call
\* processUserInfo
UserInfoInit ==
    \E cd \in SeqsUpTo(FetchedComments, MaxFetchedComments) :
        userInfoRun = [commentData |-> cd, pc |-> "called", jobs |-> <<>>,
                       userInfoMap |-> <<>>, fetched |-> <<>>, settled |-> <<>>,
                       successCount |-> -1, commentDataWithUser |-> <<>>]

\* processUserInfo up to await Promise.allSettled: userIds.map starts every
\* callback; the one of index 0 calls fetchUserInfo at once, the others
\* wait for delay(CONFIG.delays.userInfo)
ProcessUserInfo ==
    /\ userInfoRun # <<>>
    /\ userInfoRun.pc = "called"
    /\ LET userIds == UniqueUserIds(userInfoRun.commentData)
       IN userInfoRun' =
            [userInfoRun EXCEPT
               !.pc = "allSettled",
               !.jobs = [k \in DOMAIN userIds |->
                           [userId |-> userIds[k],
                            pc |-> IF k = 1 THEN "fetching" ELSE "delay",
                            resp |-> "none"]],
               !.fetched = IF userIds = <<>> THEN <<>> ELSE <<userIds[1]>>]

\* the timer of callback k fires (the timers were set in index order for the
\* same duration): fetchUserInfo(userId) issues its fetch
UserInfoDelayElapsed(k) ==
    /\ userInfoRun # <<>>
    /\ k \in DOMAIN userInfoRun.jobs
    /\ userInfoRun.jobs[k].pc = "delay"
    /\ \A i \in DOMAIN userInfoRun.jobs : i < k => userInfoRun.jobs[i].pc # "delay"
    /\ userInfoRun' = [userInfoRun EXCEPT !.jobs[k].pc = "fetching",
                                          !.fetched = Append(@, userInfoRun.jobs[k].userId)]

\* the fetch of callback k settles with resp: fetchUserInfo returns, the
\* callback stores a non-null userInfo in userInfoMap and returns
UserInfoFetchSettles(k, resp) ==
    /\ userInfoRun # <<>>
    /\ k \in DOMAIN userInfoRun.jobs
    /\ userInfoRun.jobs[k].pc = "fetching"
    /\ LET userId == userInfoRun.jobs[k].userId
           userInfo == fetchUserInfo(userId, resp)
       IN userInfoRun' =
            [userInfoRun EXCEPT
               !.jobs[k].pc = "done",
               !.jobs[k].resp = resp,
               !.settled = Append(@, k),
               !.userInfoMap = IF userInfo # NoUserInfo
                               THEN MapSet(@, userId, userInfo) ELSE @]

\* Promise.allSettled resolves; successCount is logged and
\* this.commentDataWithUser is built from this.commentData
UserInfosSettled ==
    /\ userInfoRun # <<>>
    /\ userInfoRun.pc = "allSettled"
    /\ \A k \in DOMAIN userInfoRun.jobs : userInfoRun.jobs[k].pc = "done"
    /\ userInfoRun' =
         [userInfoRun EXCEPT
            !.pc = "done",
            !.successCount = Len(userInfoRun.jobs),
            !.commentDataWithUser =
               [k \in DOMAIN userInfoRun.commentData |->
                  WithUserInfo(userInfoRun.commentData[k], userInfoRun.userInfoMap)]]

UserInfoNext ==
    \/ ProcessUserInfo
    \/ \E k \in 1 .. MaxFetchedComments : UserInfoDelayElapsed(k)
    \/ \E k \in 1 .. MaxFetchedComments, resp \in UserInfoResponses : UserInfoFetchSettles(k, resp)
    \/ UserInfosSettled

\* one ResourceDownloader.downloadAllResources call, or the
\* downloadResources calls on one ZanLiveDownloader
InitDl ==
    /\ SchedIdle /\ AssIdle /\ FmtIdle /\ schedulers = <<>>
    /\ \/ DlInit /\ ResIdle /\ RetryIdle /\ UserIdle /\ DelayedIdle /\ userInfoRun = <<>>
       \/ DlIdle /\ ResInit /\ RetryIdle /\ UserIdle /\ DelayedIdle /\ userInfoRun = <<>>
       \/ DlIdle /\ ResIdle /\ RetryInit /\ UserIdle /\ DelayedIdle /\ userInfoRun = <<>>
       \/ DlIdle /\ ResIdle /\ RetryIdle /\ UserInit /\ DelayedIdle /\ userInfoRun = <<>>
       \/ DlIdle /\ ResIdle /\ RetryIdle /\ UserIdle /\ DelayedInit /\ userInfoRun = <<>>
       \/ DlIdle /\ ResIdle /\ RetryIdle /\ UserIdle /\ DelayedIdle /\ UserInfoInit

NextDl ==
    \/ DlNext /\ UNCHANGED <<schedVars, resVars, auxVars, moreVars>>
    \/ ResNext /\ UNCHANGED <<schedVars, dlVars, auxVars, moreVars>>
    \/ RetryNext /\ UNCHANGED <<schedVars, dlVars, resVars, userData, delayed, ass, fmt, moreVars>>
    \/ UserNext /\ UNCHANGED <<schedVars, dlVars, resVars, retryCall, delayed, ass, fmt, moreVars>>
    \/ DelayedNext /\ UNCHANGED <<schedVars, dlVars, resVars, retryCall, userData, ass, fmt, moreVars>>
    \/ UserInfoNext /\ UNCHANGED <<schedVars, dlVars, resVars, auxVars, schedulers>>

SpecDl == InitDl /\ [][NextDl]_vars

(***************************************************************************)
(* AssGenerator of ass-generator.ts: constructor, generateHeader,          *)
(* generateEvents, generateAss, saveAss; generateAssFile and download of   *)
(* ZanLiveDownloader around it                                             *)
(***************************************************************************)
\* number of comments handed to saveAss
MaxAssComments == 2

\* CONFIG.ass.lineHeight as configured (60 unless the configuration is changed)
AssLineHeights == {60, 135, 300}

\* CONFIG.ass.videoHeight
assVideoHeight == 1080

\* getDanmakuHeight(): Math.floor(CONFIG.ass.videoHeight / 4)
getDanmakuHeight == assVideoHeight \div 4

\* getMaxDanmakuLines(): Math.floor(getDanmakuHeight() / CONFIG.ass.lineHeight)
getMaxDanmakuLines(cfgLineHeight) == getDanmakuHeight \div cfgLineHeight

\* this.lineHeight = this.danmakuHeight + 5
AssLineHeight == getDanmakuHeight + 5

\* comment.timestamp, comment.message, comment.avatarPath
AssTimestamps == {0, 1000, 9000}
NoMessage == ""
AssMessages == {NoMessage, "m"}
NoPath == <<>>
AvatarPaths ==
    {NoPath, <<"a", "/", "u", "1", ".", "j", "p", "g">>,
             <<"a", "/", "u", "2", ".", "p", "n", "g">>}

EnrichedComments ==
    [timestamp : AssTimestamps, message : AssMessages, avatarPath : AvatarPaths]

RECURSIVE LastDot(_, _)
\* position of the last "." among str[1..n], 0 when there is none
LastDot(str, n) ==
    IF n = 0 THEN 0 ELSE IF str[n] = "." THEN n ELSE LastDot(str, n - 1)

\* path.basename(p)
Basename(p) == AfterLastSlash(p)

\* path.parse(avatarPath).name + '.png', the basename of the processed file
ProcessedName(avatarPath) ==
    LET base == Basename(avatarPath)
        dot == LastDot(base, Len(base))
    IN (IF dot > 1 THEN SubSeq(base, 1, dot - 1) ELSE base) \o DotPng

\* comments.map(c => c.avatarPath).filter(p => !!p && isValidImage(p)); the
\* files of existing are the ones isValidImage finds on disk
ValidAvatarPaths(cs, existing) ==
    {cs[k].avatarPath : k \in DOMAIN cs} \cap (existing \ {NoPath})

\* generateHeader: the Graphics file names, one per entry of processedAvatars
\* (kept as path |-> processed name, in the order of the paths' first use)
RECURSIVE GraphicsOf(_, _)
GraphicsOf(order, processed) ==
    IF order = <<>> THEN <<>>
    ELSE LET rest == GraphicsOf(SubSeq(order, 1, Len(order) - 1), processed)
             p == order[Len(order)]
         IN IF p \in processed /\ ~\E k \in 1 .. (Len(order) - 1) : order[k] = p
            THEN Append(rest, ProcessedName(p))
            ELSE rest

\* for (i = 0; i < maxLines; i++) if ((lineTracker[i] || 0) <= currentTime)
\* { selectedLine = i; break; }   with selectedLine = 0 to begin with
AssSelectedLine(tracker, maxL, currentTime) ==
    LET free == {i \in 0 .. (maxL - 1) : tracker[i] <= currentTime}
    IN IF free = {} THEN 0 ELSE CHOOSE i \in free : \A j \in free : i <= j

AssUpdatedTrackerKeepingMax(tracker, line, currentTime) ==
    [tracker EXCEPT ![line] = Max(tracker[line], currentTime) + speed * 1000]

\* lineTracker[selectedLine] = currentTime + this.speed * 1000
AssUpdatedTracker(tracker, line, currentTime) ==
    [tracker EXCEPT ![line] = currentTime + speed * 1000]

\* const y = line * this.lineHeight + this.lineHeight / 2, doubled
TwiceY(line) == 2 * line * AssLineHeight + AssLineHeight

NoImg == <<>>

RECURSIVE AssEvents(_, _, _, _)
\* the forEach of generateEvents over cs: the events of the comments that
\* have a message, each on its selected line, with the avatar file name of a
\* processed avatarPath
AssEvents(cs, maxL, processed, tracker) ==
    IF cs = <<>> THEN <<>>
    ELSE LET c == Head(cs)
         IN IF c.message = NoMessage
            THEN AssEvents(Tail(cs), maxL, processed, tracker)
            ELSE LET line == AssSelectedLine(tracker, maxL, c.timestamp)
                     ev == [start |-> c.timestamp,
                            end |-> c.timestamp + speed * 1000,
                            line |-> line,
                            y2 |-> TwiceY(line),
                            img |-> IF c.avatarPath # NoPath /\ c.avatarPath \in processed
                                    THEN ProcessedName(c.avatarPath) ELSE NoImg]
                 IN <<ev>> \o AssEvents(Tail(cs), maxL, processed,
                                        AssUpdatedTracker(tracker, line, c.timestamp))

\* new Array(this.maxLines).fill(0); reading a missing entry gives 0 and
\* only entry 0 is ever written without being selected by the loop
NewLineTracker(maxL) == [i \in 0 .. (Max(maxL, 1) - 1) |-> 0]

\* new AssGenerator(liveId, liveName) under the configuration, in download()
AssInit ==
    \E cfg \in AssLineHeights, cs \in SeqsUpTo(EnrichedComments, MaxAssComments) :
        ass = [maxLines |-> getMaxDanmakuLines(cfg), comments |-> cs,
               processedAvatars |-> {}, pc |-> "constructed",
               graphics |-> <<>>, events |-> <<>>,
               contentFailed |-> FALSE, trackFile |-> "none", result |-> "none"]

\* generateAssFile calls saveAss: the ass directory is made, generateAss
\* calls generateHeader, which lists this.processedAvatars, and then
\* generateEvents up to its await. An error of mkdirSync goes through the
\* catch of saveAss into the catch of generateAssFile
SaveAssStarts(mkdirOk) ==
    /\ ass # <<>>
    /\ ass.pc = "constructed"
    /\ ass' = IF mkdirOk
              THEN [ass EXCEPT !.pc = "generateEvents",
                               !.graphics = GraphicsOf(
                                    [k \in DOMAIN ass.comments |-> ass.comments[k].avatarPath],
                                    ass.processedAvatars)]
              ELSE [ass EXCEPT !.pc = "caught"]

\* generateEvents goes on: processAvatarBatch has processed the valid avatar
\* paths it could, the forEach emits the events and generateAss returns
\* header + events; or producing the content throws (the error goes through
\* the catch of saveAss, which rethrows, into the catch of generateAssFile)
GenerateEventsEnds(existing, processed, throws) ==
    /\ ass # <<>>
    /\ ass.pc = "generateEvents"
    /\ processed \subseteq ValidAvatarPaths(ass.comments, existing)
    /\ ass' = IF throws
              THEN [ass EXCEPT !.pc = "caught", !.contentFailed = TRUE]
              ELSE LET batch == IF ValidAvatarPaths(ass.comments, existing) # {}
                                THEN processed ELSE ass.processedAvatars
                   IN [ass EXCEPT !.pc = "write",
                                  !.processedAvatars = batch,
                                  !.events = AssEvents(ass.comments, ass.maxLines, batch,
                                                       NewLineTracker(ass.maxLines))]

\* fs.writeFileSync(filepath, assContent) returns or throws; a write that
\* throws leaves no file or a part of it
WriteTrackFile(left) ==
    /\ ass # <<>>
    /\ ass.pc = "write"
    /\ ass' = IF left = "complete"
              THEN [ass EXCEPT !.pc = "saved", !.trackFile = left]
              ELSE [ass EXCEPT !.pc = "caught", !.trackFile = left]

\* generateAssFile returns, after saveAss returned or after its own catch
\* logged the error saveAss rethrew; download() goes on and returns
\* { success: true }
DownloadReturns ==
    /\ ass # <<>>
    /\ ass.pc \in {"saved", "caught"}
    /\ ass' = [ass EXCEPT !.pc = "done", !.result = "success"]

AssNext ==
    \/ \E ok \in BOOLEAN : SaveAssStarts(ok)
    \/ \E existing \in SUBSET AvatarPaths, processed \in SUBSET AvatarPaths, throws \in BOOLEAN :
         GenerateEventsEnds(existing, processed, throws)
    \/ \E left \in {"complete", "none", "truncated"} : WriteTrackFile(left)
    \/ DownloadReturns

(***************************************************************************)
(* The lane choice of generateEvents of utils.ts and of ass-generator.ts,  *)
(* run on the same lane count, dwell time and event times                  *)
(***************************************************************************)
\* number of events handed to both
MaxTwinEvents == 4

\* currentTime of an event, in ms: the relative time of utils.ts, the
\* timestamp of ass-generator.ts
EventTimes == {-100, 0, 100, 5000, 8000, 16000}

\* this.maxLines of both generators
LaneCounts == {1, 2, 4}

SchedulersInit ==
    \E n \in LaneCounts :
        schedulers = [maxLines |-> n, steps |-> <<>>,
                      utils |-> [i \in 0 .. (n - 1) |-> 0],
                      ass |-> NewLineTracker(n)]

\* one iteration of comments.forEach in each generateEvents, for an event
\* with a message at time t
ScheduleOnBoth(t) ==
    /\ schedulers # <<>>
    /\ Len(schedulers.steps) < MaxTwinEvents
    /\ LET uLine == SelectedLine(schedulers.utils, t)
           aLine == AssSelectedLine(schedulers.ass, schedulers.maxLines, t)
           uAfter == UpdatedTracker(schedulers.utils, uLine, t)
           aAfter == AssUpdatedTracker(schedulers.ass, aLine, t)
       IN schedulers' =
            [schedulers EXCEPT
               !.steps = Append(@, [time |-> t, uLine |-> uLine, aLine |-> aLine,
                                    uBefore |-> schedulers.utils,
                                    aBefore |-> schedulers.ass,
                                    uAfter |-> uAfter, aAfter |-> aAfter]),
               !.utils = uAfter,
               !.ass = aAfter]

SchedulersNext == \E t \in EventTimes : ScheduleOnBoth(t)

(***************************************************************************)
(* Formatting functions: timeToAss (utils.ts)                              *)
(***************************************************************************)
\* the largest number of whole hours in a time offset (100 is tried as well)
MaxHours == 12

\* the millisecond offsets handed to timeToAss
TimeOffsets ==
    {h * 3600000 + m * 60000 + sec * 1000 + ms :
        h \in (0 .. MaxHours) \cup {100}, m \in {0, 1, 59}, sec \in {0, 1, 59},
        ms \in {0, 5, 9, 10, 999}}

DigitChars == <<"0", "1", "2", "3", "4", "5", "6", "7", "8", "9">>

RECURSIVE NumberToString(_)
\* n.toString() of a non-negative integer
NumberToString(n) ==
    IF n < 10 THEN <<DigitChars[n + 1]>>
    ELSE NumberToString(n \div 10) \o <<DigitChars[(n % 10) + 1]>>

RECURSIVE PadStart(_, _, _)
\* s.padStart(len, ch)
PadStart(str, len, ch) == IF Len(str) >= len THEN str ELSE PadStart(<<ch>> \o str, len, ch)

RoundedCentiseconds(timestamp) == (timestamp + 5) \div 10

\* const totalCentiseconds = Math.floor(timestamp / 10)
TotalCentiseconds(timestamp) == timestamp \div 10

\* AssGenerator.timeToAss of utils.ts
timeToAss(timestamp) ==
    LET totalCentiseconds == TotalCentiseconds(timestamp)
        hours == totalCentiseconds \div 360000
        minutes == (totalCentiseconds % 360000) \div 6000
        seconds == (totalCentiseconds % 6000) \div 100
        centiseconds == totalCentiseconds % 100
    IN PadStart(NumberToString(hours), 1, "0") \o <<":">>
         \o PadStart(NumberToString(minutes), 2, "0") \o <<":">>
         \o PadStart(NumberToString(seconds), 2, "0") \o <<".">>
         \o PadStart(NumberToString(centiseconds), 2, "0")

\* AssGenerator.timeToAss of ass-generator.ts: the fields of new Date(timestamp)
\* in UTC, the hours being those of the day
AssTimeToAss(timestamp) ==
    LET hours == (timestamp \div 3600000) % 24
        minutes == (timestamp \div 60000) % 60
        seconds == (timestamp \div 1000) % 60
        centiseconds == (timestamp % 1000) \div 10
    IN PadStart(NumberToString(hours), 2, "0") \o <<":">>
         \o PadStart(NumberToString(minutes), 2, "0") \o <<":">>
         \o PadStart(NumberToString(seconds), 2, "0") \o <<".">>
         \o PadStart(NumberToString(centiseconds), 2, "0")

(***************************************************************************)
(* Formatting functions: getResourceFilename, sanitizeFilename, getFileName *)
(***************************************************************************)
\* the resource ids a file name is derived from: the page urls and a url
\* whose last path segment holds ':' and '*'
ResourceIds ==
    PageUrls \cup {Url(OriginC, <<"/", "a", ":", "b", "*", ".", "p", "n", "g">>)}

Animation == <<"a", "n", "i", "m", "a", "t", "i", "o", "n">>

\* getResourceFilename(url) of utils.ts; now is Date.now() in the catch branch
getResourceFilename(url, now) ==
    IF url.valid
    THEN LET last == AfterLastSlash(url.pathname)
             filename == IF last = <<>> THEN Unknown ELSE last
         IN IF ~Includes(filename, <<".">>)
            THEN IF Includes(url.text, Gif) \/ Includes(url.text, Animation)
                 THEN filename \o DotGif
                 ELSE filename \o DotPng
            ELSE filename
    ELSE <<"r", "e", "s", "o", "u", "r", "c", "e", "_", now>> \o DotPng

\* the characters of /[<>:"/\\|?*]/
UnsafeChars == {"<", ">", ":", "\"", "/", "\\", "|", "?", "*"}

\* sanitizeFilename(filename): filename.replace(/[<>:"/\\|?*]/g, '_')
sanitizeFilename(filename) ==
    [k \in DOMAIN filename |-> IF filename[k] \in UnsafeChars THEN "_" ELSE filename[k]]

FileNameFns == {"getFileName", "getResourceFilename"}

FmtInit ==
    \/ \E t \in TimeOffsets : fmt = [fn |-> "timeToAss", arg |-> t, results |-> <<>>]
    \/ \E f \in FileNameFns, id \in ResourceIds :
         fmt = [fn |-> f, arg |-> id, results |-> <<>>]
    \/ \E id \in ResourceIds :
         fmt = [fn |-> "sanitizeFilename", arg |-> id.text, results |-> <<>>]
    \/ \E t \in TimeOffsets : fmt = [fn |-> "timeToAss of both", arg |-> t, results |-> <<>>]

\* getFileName(arg) or getResourceFilename(arg) is evaluated, up to twice
CallFileNameFn(now) ==
    /\ fmt # <<>>
    /\ fmt.fn \in FileNameFns
    /\ Len(fmt.results) < 2
    /\ fmt' = [fmt EXCEPT !.results =
                 Append(@, IF fmt.fn = "getFileName"
                           THEN getFileName(fmt.arg, now)
                           ELSE getResourceFilename(fmt.arg, now))]

\* sanitizeFilename(arg) is evaluated, up to twice
CallSanitizeFilename ==
    /\ fmt # <<>>
    /\ fmt.fn = "sanitizeFilename"
    /\ Len(fmt.results) < 2
    /\ fmt' = [fmt EXCEPT !.results = Append(@, sanitizeFilename(fmt.arg))]

\* timeToAss(arg) is evaluated
CallTimeToAss ==
    /\ fmt # <<>>
    /\ fmt.fn = "timeToAss"
    /\ fmt.results = <<>>
    /\ fmt' = [fmt EXCEPT !.results = <<timeToAss(fmt.arg)>>]

\* timeToAss(arg) of utils.ts and timeToAss(arg) of ass-generator.ts are
\* evaluated on the same offset
CallBothTimeToAss ==
    /\ fmt # <<>>
    /\ fmt.fn = "timeToAss of both"
    /\ fmt.results = <<>>
    /\ fmt' = [fmt EXCEPT !.results = <<timeToAss(fmt.arg), AssTimeToAss(fmt.arg)>>]

FmtNext ==
    \/ CallTimeToAss
    \/ CallBothTimeToAss
    \/ \E now \in NowMs : CallFileNameFn(now)
    \/ CallSanitizeFilename

\* the ass-generator.ts generator and the formatting functions
InitAss ==
    /\ SchedIdle /\ DlIdle /\ ResIdle /\ RetryIdle /\ UserIdle /\ DelayedIdle
    /\ userInfoRun = <<>>
    /\ \/ AssIdle /\ FmtInit /\ schedulers = <<>>
       \/ AssInit /\ FmtIdle /\ schedulers = <<>>
       \/ AssIdle /\ FmtIdle /\ SchedulersInit

NextAss ==
    \/ AssNext /\ UNCHANGED <<schedVars, dlVars, resVars, retryCall, userData, delayed, fmt, moreVars>>
    \/ FmtNext /\ UNCHANGED <<schedVars, dlVars, resVars, retryCall, userData, delayed, ass, moreVars>>
    \/ SchedulersNext /\ UNCHANGED <<schedVars, dlVars, resVars, auxVars, userInfoRun>>

SpecAss == InitAss /\ [][NextAss]_vars

(***************************************************************************)
(* Properties of the lane scheduler (checked under Spec)                   *)
(***************************************************************************)
\* on-screen intervals [start, start + speed*1000) of two events intersect
Overlap(e1, e2) == e1.start < e2.end /\ e2.start < e1.end

EventPairs == {p \in (DOMAIN events) \X (DOMAIN events) : p[1] < p[2]}

SameLaneOverlaps ==
    {p \in EventPairs : /\ events[p[1]].line = events[p[2]].line
                        /\ Overlap(events[p[1]], events[p[2]])}

\* the lane state an event was scheduled against left no lane free
ForcedReuse(e) == \A l \in DOMAIN e.tracker : e.tracker[l] > e.start

\* comments arrive in nondecreasing created_at order
ArrivalSorted ==
    \A i, j \in DOMAIN comments : i < j => comments[i].created_at <= comments[j].created_at

\* the number of events on screen at the instant event e starts
OnScreenAt(e) ==
    Cardinality({k \in DOMAIN events : events[k].start <= e.start /\ e.start < events[k].end})

\* at no instant are more than maxLines events on screen (the maximum is
\* attained at the start of some event)
BelowCapacity == \A k \in DOMAIN events : OnScreenAt(events[k]) <= maxLines

\* C1: for every pair of emitted events placed on the same lane, their
\* on-screen intervals [start, start + speed*1000) do not overlap.
C1_NoSameLaneOverlap == SameLaneOverlaps = {}

C3_OverlapOnlyByForcedReuse ==
    /\ \A k \in DOMAIN events : events[k].line \in 0 .. (maxLines - 1)
    /\ \A p \in SameLaneOverlaps : ForcedReuse(events[p[2]])

C3_Witness ==
    /\ ~ArrivalSorted
    /\ SameLaneOverlaps # {}
    /\ \E k \in DOMAIN events : ForcedReuse(events[k]) /\ events[k].start < 0

\* C4 (as stated): for every input, in arrival order without sorting, that
\* never has more than maxLines events on screen at once, the forced-reuse
\* branch is never taken (every event found an available line) and no two
\* events of one lane overlap.
C4_ExactColouringAnyOrder ==
    BelowCapacity =>
        /\ \A k \in DOMAIN events : events[k].found
        /\ SameLaneOverlaps = {}

\* C4 (amended): the same, for inputs whose comments arrive in nondecreasing
\* time order.
C4_ExactColouringSorted ==
    (ArrivalSorted /\ BelowCapacity) =>
        /\ \A k \in DOMAIN events : events[k].found
        /\ SameLaneOverlaps = {}

C4_Witness ==
    /\ ArrivalSorted
    /\ BelowCapacity
    /\ maxLines = 2
    /\ \E p \in EventPairs : events[p[1]].line = events[p[2]].line
    /\ \E p \in EventPairs : /\ events[p[1]].line # events[p[2]].line
                             /\ Overlap(events[p[1]], events[p[2]])

(***************************************************************************)
(* Properties of the resource fetch (checked under SpecDl)                 *)
(***************************************************************************)
\* the configured worker count W of the fetch pool
maxWorkers == 2

JobIds == ({"avatar"} \X DOMAIN avatarJobs) \cup ({"page"} \X DOMAIN pageJobs)

JobOf(id) == IF id[1] = "avatar" THEN avatarJobs[id[2]] ELSE pageJobs[id[2]]

\* the fetches that have been issued and have not settled
InFlight == {id \in JobIds : JobOf(id).pc = "fetching"}

\* the jobs that hold an open write stream, and the path each writes
Writing == {id \in JobIds : JobOf(id).pc = "writing"}
FilePath(id) == <<JobOf(id).dir, JobOf(id).file>>

\* C5: the number of fetches in flight at the same time never exceeds the
\* worker bound W.
C5_InFlightWithinWorkerBound == Cardinality(InFlight) <= maxWorkers

\* C6: when the same url is submitted twice (it appears twice in
\* pageData.resourceUrls), exactly one fetch is issued for it and both
\* callers observe the same outcome.
C6_OneFetchPerUrl ==
    \A i, k \in DOMAIN pageJobs :
        (i < k /\ pageJobs[i].url = pageJobs[k].url) =>
            /\ ~(pageJobs[i].fetched /\ pageJobs[k].fetched)
            /\ (pageJobs[i].pc \in Terminal /\ pageJobs[k].pc \in Terminal)
                  => pageJobs[i].pc = pageJobs[k].pc

\* C8: no two download jobs write to the same file path at overlapping times.
C8_NoConcurrentWritesToOnePath ==
    \A a, b \in Writing : a # b => FilePath(a) # FilePath(b)

\* a settled batch: every callback was started, fetched, and ended as success
\* exactly when the environment let its own fetch and write through
Isolated(js) ==
    \A k \in DOMAIN js :
        /\ js[k].fetched
        /\ js[k].pc = "ok" <=> js[k].env = "ok"
        /\ js[k].pc = "failed" <=> js[k].env = "fault"

\* a finished downloadResources loop: every url was attempted, the counters
\* count the urls that succeeded and the urls that failed all maxRetries times
LoopIsolated(run) ==
    /\ Len(run.results) = Len(resourceArray)
    /\ run.successCount = Cardinality({k \in DOMAIN run.results : run.results[k].ok})
    /\ run.failCount = Cardinality({k \in DOMAIN run.results : ~run.results[k].ok})
    /\ \A k \in DOMAIN run.results : ~run.results[k].ok => run.results[k].tries = maxRetries

\* C9: a job that fails does not make the batch throw or stop: when
\* downloadAvatars / downloadPageResources / downloadResources return, every
\* job has been attempted and has ended as success unless its own fetch or
\* write failed.
C9_PartialFailureIsolation ==
    /\ avatarPc = "done" =>
         /\ Len(avatarJobs) = Len(AvatarUrls(commentData))
         /\ Isolated(avatarJobs)
    /\ (pagePc = "done" /\ allPc # "idle") =>
         /\ Len(pageJobs) = Len(resourceUrls)
         /\ Isolated(pageJobs)
    /\ \A r \in DOMAIN runs : runs[r].pc = "done" => LoopIsolated(runs[r])

C9_Witness ==
    /\ allPc = "done"
    /\ Len(pageJobs) = 3
    /\ pageJobs[2].pc = "failed"
    /\ pageJobs[1].pc = "ok"
    /\ pageJobs[3].pc = "ok"

\* C10: downloadAllResources resolves only after every avatar job and every
\* page job is terminal, and a logged success count equals the number of jobs
\* whose download succeeded.
C10_ResolvesAfterAllJobs ==
    allPc = "done" =>
        /\ Len(avatarJobs) = Len(AvatarUrls(commentData))
        /\ Len(pageJobs) = Len(resourceUrls)
        /\ \A id \in JobIds : JobOf(id).env \in {"ok", "fault"}
        /\ Len(avatarJobs) > 0 =>
             avatarSuccessCount = Cardinality({k \in DOMAIN avatarJobs : avatarJobs[k].env = "ok"})
        /\ Len(pageJobs) > 0 =>
             pageSuccessCount = Cardinality({k \in DOMAIN pageJobs : pageJobs[k].env = "ok"})

C10_Witness ==
    /\ allPc = "done"
    /\ Len(avatarJobs) = 2
    /\ Len(pageJobs) = 1
    /\ avatarSuccessCount = 1
    /\ pageSuccessCount = 1

\* a downloadResource call that is past its downloadedResources check
Active(run) == run.pc \in {"ensureDir", "fetching", "writing"}

\* C7 (as stated): once a download of a url has completed, as success or as
\* failed, every later downloadResource call for it returns without a fetch
\* and without a write, and the recorded outcome never changes.
C7_CompletedOutcomeIsFinal ==
    /\ \A r \in DOMAIN runs : Active(runs[r]) => runs[r].prior = {}
    /\ \A u \in DOMAIN completed : Cardinality(completed[u]) <= 1

\* C7 (amended): once a download of a url has succeeded, every downloadResource
\* call for it that starts later returns without a fetch and without a write,
\* and the url stays in downloadedResources.
C7_SuccessIsCached ==
    /\ \A r \in DOMAIN runs : Active(runs[r]) => "success" \notin runs[r].prior
    /\ \A u \in DOMAIN completed : "success" \in completed[u] => u \in downloadedResources

C7_Witness ==
    /\ runs # <<>>
    /\ runs["r1"].pc = "done"
    /\ runs["r2"].pc = "done"
    /\ \E k \in DOMAIN resourceArray :
         /\ runs["r1"].results[k] = [ok |-> TRUE, tries |-> 2]
         /\ runs["r2"].results[k] = [ok |-> TRUE, tries |-> 0]

(***************************************************************************)
(* Properties of retry (checked under SpecDl)                              *)
(***************************************************************************)
RetryEnded == retryCall # <<>> /\ retryCall.pc \in {"returned", "thrown"}

\* the number of times fn was invoked
Invocations(rc) == Cardinality({k \in DOMAIN rc.trace : rc.trace[k] = "call"})

\* C11: retry(fn, maxRetries, retryDelay) with maxRetries >= 1 invokes fn until
\* its first success and returns that result; it invokes fn at most maxRetries
\* times, waits retryDelay between two consecutive attempts and not after the
\* last one, and when every attempt fails it rejects with the last error.
C11_RetryContract ==
    (retryCall # <<>> /\ retryCall.maxRetries >= 1) =>
        LET rc == retryCall
            n == Len(rc.outcomes)
        IN /\ Invocations(rc) <= rc.maxRetries
           /\ \A k \in 1 .. (n - 1) : ~rc.outcomes[k].ok
           /\ RetryEnded =>
                /\ Invocations(rc) = n
                /\ n >= 1
                /\ rc.result = rc.outcomes[n]
                /\ rc.pc = "returned" <=> rc.outcomes[n].ok
                /\ rc.pc = "thrown" => n = rc.maxRetries
                /\ Len(rc.trace) = 2 * n - 1
                /\ \A k \in DOMAIN rc.trace :
                     rc.trace[k] = IF k % 2 = 1 THEN "call" ELSE "delay"
                /\ rc.waited = (n - 1) * rc.retryDelay

C11_Witness ==
    /\ RetryEnded
    /\ retryCall.maxRetries = 3
    /\ retryCall.retryDelay = 1000
    /\ retryCall.pc = "thrown"
    /\ retryCall.result = FnOutcome(2, FALSE)
    /\ retryCall.waited = 2000

(***************************************************************************)
(* Properties of the retried fetches (checked under SpecDl)                *)
(***************************************************************************)
\* C12: a fetch that failed (non-2xx response or network error) is attempted
\* again, up to the retry budget, before its job is recorded as failed: in
\* processUserData a comment counted in failCount had maxRetries getUserInfo
\* fetches, and a failed avatar download had maxRetries avatar fetches.
C12_FailedFetchIsRetried ==
    userData # <<>> =>
        /\ \A k \in userData.infoFailed : userData.infoFetches[k] = maxRetries
        /\ \A k \in userData.avatarFailed : userData.avatarFetches[k] = maxRetries

\* C13: for any two jobs with consecutive indices i and i+1 the fetch of job
\* i+1 is issued at least the inter-job delay D after the fetch of job i.
C13_InterJobDelay ==
    delayed # <<>> =>
        \A k \in DOMAIN delayed.jobs :
            (k > 1 /\ delayed.jobs[k].issuedAt # NotIssued) =>
                delayed.jobs[k].issuedAt - delayed.jobs[k - 1].issuedAt >= delayed.d

\* every ResourceDownloader job that holds an open write stream writes into a
\* directory whose mkdir has completed
DlWritesIntoCreatedDirs == \A id \in Writing : JobOf(id).dir \in dirs

\* C14: on every download path, creation of the category directory (avatars/,
\* images/, gifs/) has completed before a file is written into it: in
\* downloadAvatars, in downloadPageResources and in downloadUserAvatar.
C14_DirCreatedBeforeWrite ==
    /\ DlWritesIntoCreatedDirs
    /\ (userData # <<>> /\ userData.pc = "avatarWrite") => avatarDir \in userData.created

(***************************************************************************)
(* Properties of the formatting functions (checked under SpecAss)          *)
(***************************************************************************)
\* the number a string of decimal digits denotes
RECURSIVE DigitsValue(_)
DigitsValue(str) ==
    IF str = <<>> THEN 0
    ELSE 10 * DigitsValue(SubSeq(str, 1, Len(str) - 1))
           + (CHOOSE d \in 0 .. 9 : DigitChars[d + 1] = str[Len(str)])

IsDigits(str) == \A k \in DOMAIN str : \E d \in 1 .. 10 : DigitChars[d] = str[k]

\* str reads H:MM:SS.CC with the given field values: hours in as many digits
\* as it needs, the other fields in two digits
ReadsAs(str, hours, minutes, seconds, centiseconds) ==
    LET n == Len(str)
        h == SubSeq(str, 1, n - 9)
    IN /\ n >= 10
       /\ IsDigits(h) /\ DigitsValue(h) = hours
       /\ (Len(h) > 1 => h[1] # "0")
       /\ str[n - 8] = ":" /\ str[n - 5] = ":" /\ str[n - 2] = "."
       /\ IsDigits(SubSeq(str, n - 7, n - 6)) /\ DigitsValue(SubSeq(str, n - 7, n - 6)) = minutes
       /\ IsDigits(SubSeq(str, n - 4, n - 3)) /\ DigitsValue(SubSeq(str, n - 4, n - 3)) = seconds
       /\ IsDigits(SubSeq(str, n - 1, n)) /\ DigitsValue(SubSeq(str, n - 1, n)) = centiseconds

\* C15: timeToAss (utils.ts) maps a non-negative millisecond offset t to
\* H:MM:SS.CC: hours = floor(t/3600000) unpadded and unbounded, minutes,
\* seconds and centiseconds in two digits, the centiseconds truncated; 0 gives
\* 0:00:00.00, 61005 gives 0:01:01.00 and 3600000 gives 1:00:00.00.
C15_TimeToAssFormat ==
    (fmt # <<>> /\ fmt.fn = "timeToAss" /\ fmt.results # <<>>) =>
        LET t == fmt.arg
            out == fmt.results[1]
        IN /\ ReadsAs(out, t \div 3600000, (t \div 60000) % 60, (t \div 1000) % 60,
                      (t % 1000) \div 10)
           /\ t = 0 => out = <<"0", ":", "0", "0", ":", "0", "0", ".", "0", "0">>
           /\ t = 61005 => out = <<"0", ":", "0", "1", ":", "0", "1", ".", "0", "0">>
           /\ t = 3600000 => out = <<"1", ":", "0", "0", ":", "0", "0", ".", "0", "0">>

C15_Witness ==
    /\ fmt # <<>>
    /\ fmt.fn = "timeToAss"
    /\ fmt.arg = 100 * 3600000 + 59 * 60000 + 59 * 1000 + 999
    /\ fmt.results = << <<"1", "0", "0", ":", "5", "9", ":", "5", "9", ".", "9", "9">> >>

\* C16: the local file name derived for a resource id has every '/', ':' and
\* '*' replaced by '_' (none of them is left in it), and the same id yields
\* the same file name on every call, ids that are not parseable urls included.
C16_FileNameSanitizedAndStable ==
    (fmt # <<>> /\ fmt.fn \in FileNameFns) =>
        /\ \A r \in DOMAIN fmt.results : \A k \in DOMAIN fmt.results[r] :
              fmt.results[r][k] \notin {"/", ":", "*"}
        /\ \A r1, r2 \in DOMAIN fmt.results : fmt.results[r1] = fmt.results[r2]

(***************************************************************************)
(* Properties of the ass-generator.ts generator (checked under SpecAss)    *)
(***************************************************************************)
\* C17: when the configuration makes the lane count zero or negative, a
\* configuration error is raised before any comment is scheduled: no event is
\* ever scheduled by a generator whose maxLines is not positive.
C17_NoSchedulingWithoutLanes ==
    (ass # <<>> /\ ass.maxLines <= 0) => ass.events = <<>>

\* C18: when producing the track content fails, saveAss writes no track file
\* (never a truncated one) and the failure reaches the caller of the run: the
\* run does not report success.
C18_ContentFailureAbortsRun ==
    (ass # <<>> /\ ass.contentFailed) =>
        /\ ass.trackFile = "none"
        /\ ass.result # "success"

\* the entries of the embedded-image table of the document that carry name
GraphicsEntries(name) == {k \in DOMAIN ass.graphics : ass.graphics[k] = name}

\* C19: in every document generateAss returns, the first one of a fresh
\* generator included, each avatar file name referenced by the image tag of
\* an event has exactly one entry in the embedded-image table of the document.
C19_ReferencedAvatarsAreEmbedded ==
    (ass # <<>> /\ ass.pc \in {"write", "saved", "done"}) =>
        \A k \in DOMAIN ass.events :
            ass.events[k].img # NoImg =>
                Cardinality(GraphicsEntries(ass.events[k].img)) = 1

\* C20: every emitted event is displayed inside the reserved top quarter of
\* the frame: the vertical coordinate line * lineHeight + lineHeight / 2 of
\* its motion directive is at most videoHeight / 4 (270 of 1080).
C20_EventsInsideTopQuarter ==
    ass # <<>> =>
        \A k \in DOMAIN ass.events : ass.events[k].y2 <= 2 * getDanmakuHeight

(***************************************************************************)
(* Further properties of the utils.ts constructor and scheduler (Spec)     *)
(***************************************************************************)
\* floor((videoHeight * displayAreaRatio) / (fontSize + fontSize * lineSpacing))
\* with the ratio and the spacing in hundredths
LaneQuotient ==
    (videoHeight * displayAreaRatio) \div (fontSize * 100 + fontSize * lineSpacing)

\* C21: the lane count computed by the utils.ts constructor equals
\* floor((videoHeight * displayAreaRatio) / (fontSize + fontSize * lineSpacing))
\* when that value is at least 1 and equals 1 otherwise; it is never less
\* than 1.
C21_LaneCountFormula ==
    /\ maxLines = (IF LaneQuotient >= 1 THEN LaneQuotient ELSE 1)
    /\ maxLines >= 1

C21_Witness ==
    /\ LaneQuotient = 0
    /\ maxLines = 1
    /\ events # <<>>

\* the lanes whose nextFreeAt was <= the start of event e when e was scheduled
FreeLanesFor(e) == {l \in DOMAIN e.tracker : e.tracker[l] <= e.start}

\* C22: whenever at least one lane has nextFreeAt <= the event's start time,
\* the scheduler assigns the event to the lowest-indexed such lane.
C22_LowestFreeLane ==
    \A k \in DOMAIN events :
        FreeLanesFor(events[k]) # {} =>
            /\ events[k].line \in FreeLanesFor(events[k])
            /\ \A l \in FreeLanesFor(events[k]) : events[k].line <= l

C22_Witness ==
    \E k \in DOMAIN events :
        /\ events[k].line = 1
        /\ events[k].tracker[1] > 0
        /\ events[k].tracker[0] > events[k].start
        /\ Cardinality(FreeLanesFor(events[k])) >= 2

\* the first three events start at 0, 100 and 5000 ms on a 2-lane generator
StartsAt0_100_5000 ==
    /\ maxLines = 2
    /\ Len(events) >= 3
    /\ events[1].start = 0 /\ events[2].start = 100 /\ events[3].start = 5000

\* C23: whenever no lane has nextFreeAt <= the event's start time, the
\* scheduler assigns the event to the lane with the smallest nextFreeAt, and
\* among lanes with equal smallest nextFreeAt to the lowest index; events at
\* 0, 100, 5000 ms with speed 8000 ms and 2 lanes get lanes 0, 1, 0.
C23_EarliestLaneOnForcedReuse ==
    /\ \A k \in DOMAIN events :
         FreeLanesFor(events[k]) = {} =>
            \A l \in DOMAIN events[k].tracker :
               \/ events[k].tracker[events[k].line] < events[k].tracker[l]
               \/ /\ events[k].tracker[events[k].line] = events[k].tracker[l]
                  /\ events[k].line <= l
    /\ StartsAt0_100_5000 =>
         events[1].line = 0 /\ events[2].line = 1 /\ events[3].line = 0

C23_Witness ==
    /\ StartsAt0_100_5000
    /\ FreeLanesFor(events[3]) = {}
    /\ events[3].tracker[0] < events[3].tracker[1]

\* the event appended by the step, if the step appended one
Assigned == events'[Len(events')]

\* C24: each assignment changes only the selected lane's entry of the lane
\* state, setting it to max(previous nextFreeAt, event start) + speed*1000;
\* the entries of all other lanes are unchanged.
C24_OnlySelectedLaneChanges ==
    [][Len(events') = Len(events) + 1 =>
         /\ DOMAIN lineTracker' = DOMAIN lineTracker
         /\ lineTracker'[Assigned.line] =
              Max(lineTracker[Assigned.line], Assigned.start) + speed * 1000
         /\ \A l \in DOMAIN lineTracker :
              l # Assigned.line => lineTracker'[l] = lineTracker[l]]_vars

C24_Witness ==
    /\ Len(events) >= 3
    /\ LET e == events[Len(events)]
       IN /\ e.tracker[e.line] > e.start
          /\ lineTracker[e.line] = e.tracker[e.line] + speed * 1000
          /\ \E l \in DOMAIN lineTracker :
               l # e.line /\ lineTracker[l] > 0 /\ lineTracker[l] = e.tracker[l]

\* C28: in the utils.ts scheduler each lane's nextFreeAt value never
\* decreases, grows by at least speed*1000 on each assignment to that lane,
\* and is greater than or equal to the display end (start + speed*1000) of
\* every event assigned to that lane so far.
C28_LaneStateMonotone ==
    [][/\ \A l \in DOMAIN lineTracker : lineTracker'[l] >= lineTracker[l]
       /\ Len(events') = Len(events) + 1 =>
            lineTracker'[Assigned.line] >= lineTracker[Assigned.line] + speed * 1000
       /\ \A k \in DOMAIN events' :
            lineTracker'[events'[k].line] >= events'[k].start + speed * 1000]_vars

C28_Witness ==
    \E p \in EventPairs :
        /\ events[p[1]].line = events[p[2]].line
        /\ ForcedReuse(events[p[2]])
        /\ lineTracker[events[p[2]].line] > events[p[2]].end
        /\ lineTracker[events[p[2]].line] > events[p[1]].end

(***************************************************************************)
(* Further properties of the ass-generator.ts generator (SpecAss)          *)
(***************************************************************************)
\* C25: every lane index selected by either generateEvents implementation
\* lies in [0, maxLanes), for every input sequence and every lane count the
\* constructor can produce.
C25_LaneIndexInRange ==
    /\ \A k \in DOMAIN events : events[k].line \in 0 .. (maxLines - 1)
    /\ ass # <<>> =>
         \A k \in DOMAIN ass.events : ass.events[k].line \in 0 .. (ass.maxLines - 1)

\* C27: timeToAss of ass-generator.ts returns, for every non-negative
\* millisecond offset, the same string as timeToAss of utils.ts: hours equal
\* floor(ms/3600000) without wrap-around and without zero padding, followed by
\* two-digit minutes, seconds and truncated centiseconds.
C27_SameTimeString ==
    (fmt # <<>> /\ fmt.fn = "timeToAss of both" /\ fmt.results # <<>>) =>
        /\ fmt.results[2] = fmt.results[1]
        /\ ReadsAs(fmt.results[2], fmt.arg \div 3600000, (fmt.arg \div 60000) % 60,
                   (fmt.arg \div 1000) % 60, (fmt.arg % 1000) \div 10)
        /\ Len(fmt.results[2]) = Len(NumberToString(fmt.arg \div 3600000)) + 9

\* a lane was free (nextFreeAt <= start) when step k was scheduled
FreeAt(k) ==
    \E l \in DOMAIN schedulers.steps[k].uBefore :
        schedulers.steps[k].uBefore[l] <= schedulers.steps[k].time

\* a lane was free at every step up to step k
FreePrefix(k) == \A j \in 1 .. k : FreeAt(j)

\* C29: given the same lane count, dwell time and event times, the lane
\* scheduler of ass-generator.ts and the one of utils.ts choose the same lane
\* for every event and hold the same lane state after every step as long as
\* a free lane exists at each step; at the first event for which no lane is
\* free ass-generator.ts uses lane 0 and overwrites its tracker entry with
\* start + speed*1000.
C29_SchedulersAgreeWhileLaneFree ==
    schedulers # <<>> =>
        \A k \in DOMAIN schedulers.steps :
            LET st == schedulers.steps[k]
            IN /\ FreePrefix(k) => st.uLine = st.aLine /\ st.uAfter = st.aAfter
               /\ (FreePrefix(k - 1) /\ ~FreeAt(k)) =>
                    /\ st.aLine = 0
                    /\ st.aAfter = [st.aBefore EXCEPT ![0] = st.time + speed * 1000]

C29_Witness ==
    /\ schedulers # <<>>
    /\ \E k \in DOMAIN schedulers.steps :
         /\ k >= 3
         /\ FreePrefix(k - 1)
         /\ ~FreeAt(k)
         /\ schedulers.steps[k].uLine # schedulers.steps[k].aLine
         /\ schedulers.steps[k - 1].uAfter = schedulers.steps[k - 1].aAfter

(***************************************************************************)
(* Properties of processUserInfo of comment.ts (SpecDl)                    *)
(***************************************************************************)
\* the user-info fetches issued for user id u
UserInfoFetchesOf(u) == {j \in DOMAIN userInfoRun.fetched : userInfoRun.fetched[j] = u}

\* a user-info fetch for user id u has settled with an ok response that
\* carries a user info
UserInfoFetchSucceeded(u) ==
    \E k \in DOMAIN userInfoRun.jobs :
        userInfoRun.jobs[k].userId = u /\ userInfoRun.jobs[k].resp = "ok"

\* C30: processUserInfo issues exactly one user-info fetch per distinct
\* user_id, and whatever order the concurrent fetches complete in, its result
\* has the same length and order as the fetched comment list, and each
\* comment carries the userInfo of its own user_id when that user's fetch
\* succeeded and no userInfo when it failed.
C30_OneFetchPerUserOrderKept ==
    userInfoRun # <<>> =>
        LET cd == userInfoRun.commentData
            result == userInfoRun.commentDataWithUser
        IN /\ \A u \in FetchedUserIds : Cardinality(UserInfoFetchesOf(u)) <= 1
           /\ \A j \in DOMAIN userInfoRun.fetched :
                \E k \in DOMAIN cd : cd[k].user_id = userInfoRun.fetched[j]
           /\ userInfoRun.pc = "done" =>
                /\ \A k \in DOMAIN cd :
                     Cardinality(UserInfoFetchesOf(cd[k].user_id)) = 1
                /\ Len(result) = Len(cd)
                /\ \A k \in DOMAIN cd :
                     /\ result[k].user_id = cd[k].user_id
                     /\ result[k].userInfo =
                          IF UserInfoFetchSucceeded(cd[k].user_id)
                          THEN [of |-> cd[k].user_id] ELSE NoUserInfo

C30_Witness ==
    /\ userInfoRun # <<>>
    /\ userInfoRun.pc = "done"
    /\ Len(userInfoRun.commentData) = 3
    /\ userInfoRun.commentData[1].user_id = userInfoRun.commentData[3].user_id
    /\ userInfoRun.commentData[1].user_id # userInfoRun.commentData[2].user_id
    /\ userInfoRun.settled = <<2, 1>>
    /\ userInfoRun.commentDataWithUser[1].userInfo = NoUserInfo
    /\ userInfoRun.commentDataWithUser[2].userInfo # NoUserInfo

(***************************************************************************)
(* Properties of downloadAvatars (SpecDl)                                  *)
(***************************************************************************)
\* the avatar jobs of user id u that have issued their fetch
AvatarFetchesOf(u) ==
    {k \in DOMAIN avatarJobs : avatarJobs[k].fetched /\ avatarJobs[k].file[1] = u}

\* the comments of user id u that carry a profileImageUrl
CommentsWithUrlOf(u) ==
    {k \in DOMAIN commentData :
        commentData[k].user_id = u /\ commentData[k].profileImageUrl # NoUrl}

\* C26: downloadAvatars issues exactly one fetch per distinct user_id that
\* has a profileImageUrl, using the URL of that user's first comment in
\* input order (the first that carries one), however many comments the user
\* has; a user_id without profileImageUrl gets no fetch.
C26_OneAvatarFetchPerUser ==
    \A u \in UserIds :
        /\ Cardinality(AvatarFetchesOf(u)) <= (IF CommentsWithUrlOf(u) # {} THEN 1 ELSE 0)
        /\ \A j \in AvatarFetchesOf(u) : \E k \in CommentsWithUrlOf(u) :
              /\ avatarJobs[j].url = commentData[k].profileImageUrl
              /\ \A i \in CommentsWithUrlOf(u) : k <= i
        /\ (avatarPc = "done" /\ CommentsWithUrlOf(u) # {}) =>
              Cardinality(AvatarFetchesOf(u)) = 1

C26_Witness ==
    /\ avatarPc = "done"
    /\ Len(commentData) = 3
    /\ commentData[1].user_id = commentData[2].user_id
    /\ commentData[1].profileImageUrl \notin {NoUrl, commentData[2].profileImageUrl}
    /\ commentData[2].profileImageUrl # NoUrl
    /\ commentData[3].user_id # commentData[1].user_id
    /\ commentData[3].profileImageUrl # NoUrl
    /\ Len(avatarJobs) = 2
    /\ avatarJobs[1].url = commentData[1].profileImageUrl

====
